---- MODULE Spec2Model ----
(***************************************************************************)
(* The OpenStack provisioner of teuthology/provision/cloud/openstack.py:   *)
(* one provisioning session (an OpenStackProvisioner object) working on a  *)
(* cloud backend account that already holds nodes and volumes of other     *)
(* sessions.  Every blocking backend, HTTP or remote call of _create and   *)
(* _destroy is one step; its outcome (success or failure) is an input.     *)
(* Strings the code inspects (node, volume and image names) are sequences  *)
(* of one-character strings.  Spec is the session's life (_create, then    *)
(* _destroy); SpecArgs, SpecProvider, SpecConf and SpecNames run parts of  *)
(* it over wider inputs: the selection of size and image, the reads of the *)
(* provider's inventory, the construction, and the naming of volumes.      *)
(***************************************************************************)
EXTENDS Integers, Sequences, FiniteSets, TLC

VARIABLES
    name,        \* self.name, the session's node name
    count,       \* self.conf['volumes']['count']
    nodes,       \* the backend's nodes, in list_nodes() order
    volumes,     \* the backend's volumes, in list_volumes() order
    _node,       \* self._node: a node id, or Unset while the attribute is absent
    pc,          \* the call the session is blocked on ("idle" between operations)
    op,          \* the operation in progress: "none", "_create" or "_destroy"
    i,           \* _create_volumes: index into vol_names of the loop (1-based)
    volume,      \* _create_volumes: the volume just created, awaiting attach
    our_volumes, \* _destroy_volumes: the listed volumes with the name prefix
    vol,         \* _destroy_volumes: position of the loop in our_volumes (1-based)
    caller,      \* who called _destroy_volumes: "_create_volumes" or "_destroy"
    tries,       \* _wait_for_ready: failed connection attempts of the running loop
    faults,      \* failed calls so far (connection retries do not count)
    vols_ret,    \* what _create_volumes returned: "none", "True", "False"
    create_res,  \* how _create ended: "none", "returned", "raised"
    destroy_res, \* how _destroy ended: "none", "True", "False", "raised"
    exc,         \* the call whose exception ended the last raised operation
    calls,       \* history: every backend/HTTP/remote call made, in order
    driver_sizes,           \* what driver.list_sizes() returns
    driver_images,          \* what driver.list_images() returns
    driver_networks,        \* what driver.ex_list_networks() returns
    driver_security_groups, \* what driver.ex_list_security_groups() returns
    driver_ex,   \* the optional listing methods the driver has
    _sizes,      \* provider._sizes: [set |-> hasattr(...), val |-> the list]
    _images,     \* provider._images
    _networks,   \* provider._networks
    _security_groups, \* provider._security_groups
    listings,    \* history: the listing calls the provider's accessors made
    returns,     \* history: the accessors read from outside _create, in order
    ret,         \* the value each accessor returned last to such a read
    machine,     \* self.conf['machine']: ram, disk, cpus
    os_type,     \* self.os_type
    os_version,  \* self.os_version
    create_args, \* _create: the size, image and networks it passes to create_node
    full_conf,   \* the conf argument of __init__, with its section 'openstack'
    legacy_conf, \* teuthology.config.config.openstack
    conf,        \* self.conf as _read_conf left it
    key_file,    \* ~/.ssh/id_rsa.pub on the controller host: exists, content
    opened       \* history: how often the key file was opened

\* the variables of the provider, the catalogs and the configuration
args_vars == <<driver_sizes, driver_images, driver_networks,
               driver_security_groups, driver_ex, _sizes, _images, _networks,
               _security_groups, listings, returns, ret, machine, os_type,
               os_version, create_args, full_conf, legacy_conf, conf,
               key_file, opened>>

vars == <<name, count, nodes, volumes, _node, pc, op, i, volume, our_volumes,
          vol, caller, tries, faults, vols_ret, create_res, destroy_res, exc,
          calls, args_vars>>

(* ------------------------------ bounds -------------------------------- *)

MaxVolCount == 2   \* largest configured volume count
MaxPreNodes == 3   \* most nodes the backend holds before the session starts
MaxFaults == 2     \* most failing calls in one behaviour
MaxSizes == 3      \* longest size catalog
MaxImages == 3     \* longest image catalog
MaxAccesses == 4   \* most reads of the provider's accessors from outside _create
MaxNameCount == 12 \* largest volume count whose names are generated

(* ----------------------------- constants ------------------------------ *)

Tries == 20        \* safe_while(sleep=6, tries=20)

Unset == 0         \* hasattr(self, '_node') is false

Foo == <<"f", "o", "o">>
Bar == <<"b", "a", "r">>

SessionNames == {Foo}
NodeNames == {Foo, Bar}

(* ------------------------------ strings ------------------------------- *)

Digit == <<"0", "1", "2", "3", "4", "5", "6", "7", "8", "9">>

RECURSIVE Str(_)
\* str(n) of a Python int
Str(n) ==
    IF n < 0 THEN <<"-">> \o Str(-n)
    ELSE IF n < 10 THEN <<Digit[n + 1]>>
    ELSE Str(n \div 10) \o <<Digit[(n % 10) + 1]>>

\* "%0{w}d" % n
ZeroPad(n, w) ==
    LET s == Str(n)
    IN  IF Len(s) >= w THEN s ELSE [k \in 1..(w - Len(s)) |-> "0"] \o s

\* s.startswith(p)
startswith(s, p) == Len(s) >= Len(p) /\ SubSeq(s, 1, Len(p)) = p

\* mutant: the index is not padded, "%s_%d" % (self.name, i)
vol_names_Unpadded(nm, vol_count) ==
    [k \in 1..vol_count |-> nm \o <<"_">> \o Str(k - 1)]

\* name_templ % (self.name, i) for i in range(vol_count)
vol_names(nm, vol_count) ==
    [k \in 1..vol_count |->
        nm \o <<"_">> \o ZeroPad(k - 1, Len(Str(vol_count - 1)))]

\* "%s_" % self.name
prefix(nm) == nm \o <<"_">>

(* --------------------------- backend state ---------------------------- *)

\* A volume record: by = 1 when this session's _create_volumes created it,
\* by = 0 when it existed before the session; att is the node it is attached
\* to (0: none).
Vol(id, nm, by) == [id |-> id, name |-> nm, by |-> by, att |-> 0]

\* Volumes other sessions left in the account: an orphan of an earlier session
\* with this session's node name, and a volume of the node "bar".
PreVolumeNames == <<vol_names(Foo, 1)[1], vol_names(Bar, 1)[1]>>

PreVolumeLists ==
    { SelectSeq([k \in 1..Len(PreVolumeNames) |-> Vol(k, PreVolumeNames[k], 0)],
                LAMBDA v : v.id \in S)
      : S \in SUBSET (1..Len(PreVolumeNames)) }

\* The ids the backend hands out: the node this session creates, and the
\* volume _create_volumes creates for vol_names[k].
SessionNodeId == MaxPreNodes + 1
VolumeId(k) == Len(PreVolumeNames) + k

PreNodeLists ==
    UNION { { [k \in 1..n |-> [id |-> k, name |-> f[k]]] : f \in [1..n -> NodeNames] }
            : n \in 0..MaxPreNodes }

RECURSIVE SeqRemove(_, _)
\* the sequence without the entries whose id is id
SeqRemove(s, id) ==
    IF s = <<>> THEN <<>>
    ELSE IF Head(s).id = id THEN SeqRemove(Tail(s), id)
    ELSE <<Head(s)>> \o SeqRemove(Tail(s), id)

Ids(s) == {s[k].id : k \in 1..Len(s)}

\* A history entry: the call, its argument (a node or volume id, 0: none),
\* whether it succeeded, and the operation that made it.
Call(o, a, ok, in) == [op |-> o, arg |-> a, ok |-> ok, in |-> in]

Log(o, a, ok) == calls' = Append(calls, Call(o, a, ok, op))

CanFail == faults < MaxFaults

(* ---------------------- strings of image matching --------------------- *)

ToLower ==
    [c \in {"A", "B", "C", "D", "E", "F", "G", "H", "I", "J", "K", "L", "M",
            "N", "O", "P", "Q", "R", "S", "T", "U", "V", "W", "X", "Y", "Z"} |->
        CASE c = "A" -> "a" [] c = "B" -> "b" [] c = "C" -> "c" [] c = "D" -> "d"
          [] c = "E" -> "e" [] c = "F" -> "f" [] c = "G" -> "g" [] c = "H" -> "h"
          [] c = "I" -> "i" [] c = "J" -> "j" [] c = "K" -> "k" [] c = "L" -> "l"
          [] c = "M" -> "m" [] c = "N" -> "n" [] c = "O" -> "o" [] c = "P" -> "p"
          [] c = "Q" -> "q" [] c = "R" -> "r" [] c = "S" -> "s" [] c = "T" -> "t"
          [] c = "U" -> "u" [] c = "V" -> "v" [] c = "W" -> "w" [] c = "X" -> "x"
          [] c = "Y" -> "y" [] c = "Z" -> "z"]

\* s.lower()
lower(s) ==
    [k \in 1..Len(s) |-> IF s[k] \in DOMAIN ToLower THEN ToLower[s[k]] ELSE s[k]]

\* p in s, for strings
contains(s, p) ==
    \E k \in 0..(Len(s) - Len(p)) : SubSeq(s, k + 1, k + Len(p)) = p

Ubuntu == <<"u", "b", "u", "n", "t", "u">>
UbuntuCap == <<"U", "b", "u", "n", "t", "u">>
Centos == <<"c", "e", "n", "t", "o", "s">>
V1604 == <<"1", "6", ".", "0", "4">>

\* the names an image of the backend may have
ImageNames ==
    { Ubuntu \o <<" ">> \o V1604,
      UbuntuCap \o <<" ">> \o V1604 \o <<" ", "L", "T", "S">>,
      Ubuntu \o <<"-">> \o V1604 \o <<"-", "s", "e", "r", "v", "e", "r">>,
      <<"U", "B", "U", "N", "T", "U", "-">> \o V1604,
      Ubuntu \o V1604,
      Centos \o <<" ", "7">> }

\* the image catalogs: every list of up to MaxImages images with these names
ImageCatalogs ==
    UNION { { [k \in 1..n |-> [id |-> k, name |-> f[k]]] : f \in [1..n -> ImageNames] }
            : n \in 0..MaxImages }

\* the catalog of a session that is not about image selection
DefaultImages ==
    <<[id |-> 1, name |-> Ubuntu \o <<"-">> \o V1604 \o <<"-", "s", "e", "r", "v", "e", "r">>]>>

NoImage == [id |-> 0, name |-> <<>>]

(* -------------------------- sizes and machine ------------------------- *)

Size(r, d, c) == [ram |-> r, disk |-> d, vcpus |-> c]

\* the sizes a catalog may hold
SizeSet == { Size(r, d, c) : r \in {4000, 8000}, d \in {10, 20}, c \in {1, 2} }

\* a catalog of three sizes, the second being the smallest one that holds the
\* default machine
ExampleSizes == <<Size(4000, 10, 1), Size(8000, 20, 2), Size(16000, 40, 4)>>

\* the size catalogs: every list of up to MaxSizes sizes, and the example
SizeCatalogs ==
    UNION { [1..n -> SizeSet] : n \in 0..MaxSizes } \cup {ExampleSizes}

\* the values self.conf['machine'] may have
Machines == { [ram |-> r, disk |-> d, cpus |-> c] :
                r \in {4000, 8000}, d \in {10, 20}, c \in {1, 2} }

NoSize == Size(0, 0, 0)

(* ------------------- get_user_ssh_pubkey, userdata -------------------- *)

\* the characters str.strip() takes off
Whitespace == {" ", "\t", "\n", "\r"}

RECURSIVE lstrip(_)
lstrip(str) ==
    IF str # <<>> /\ Head(str) \in Whitespace THEN lstrip(Tail(str)) ELSE str

RECURSIVE rstrip(_)
rstrip(str) ==
    IF str # <<>> /\ str[Len(str)] \in Whitespace
    THEN rstrip(SubSeq(str, 1, Len(str) - 1))
    ELSE str

\* str.strip()
strip(str) == rstrip(lstrip(str))

\* a public key, and the contents the key file may have
PubKey == <<"s", "s", "h", "-", "r", "s", "a", " ", "A", "A", "A", "A">>
KeyFileContents ==
    { <<>>, <<"\n">>, PubKey, PubKey \o <<"\n">>, <<" ">> \o PubKey \o <<"\t", "\n">> }

\* the key files a controller host may have, or lack
KeyFiles ==
    {[exists |-> FALSE, content |-> <<>>]}
        \cup {[exists |-> TRUE, content |-> c] : c \in KeyFileContents}

\* the key file of a host whose user has a key
DefaultKeyFile == [exists |-> TRUE, content |-> PubKey \o <<"\n">>]

\* mutant: the content is returned as read, f.read()
get_user_ssh_pubkey_Unstripped(f) ==
    IF ~f.exists THEN [none |-> TRUE, val |-> <<>>, opened |-> 0]
    ELSE [none |-> FALSE, val |-> f.content, opened |-> 1]

\* util.get_user_ssh_pubkey(): None without opening when the path does not
\* exist, else f.read().strip(); opened counts the file() calls
get_user_ssh_pubkey(f) ==
    IF ~f.exists THEN [none |-> TRUE, val |-> <<>>, opened |-> 0]
    ELSE [none |-> FALSE, val |-> strip(f.content), opened |-> 1]

\* a payload without the key 'ssh_authorized_keys'
NoUserdata == [keys_entry |-> FALSE, ssh_authorized_keys |-> <<>>]

\* the userdata property, as far as the authorized keys go: if ssh_pubkey: ...
userdata(ssh_pubkey) ==
    IF ~ssh_pubkey.none /\ ssh_pubkey.val # <<>>
    THEN [keys_entry |-> TRUE, ssh_authorized_keys |-> <<ssh_pubkey.val>>]
    ELSE NoUserdata

NoArgs ==
    [size |-> NoSize, image |-> NoImage, ex_userdata |-> NoUserdata,
     networks |-> <<>>]

(* ------------------------- OpenStackProvider -------------------------- *)

\* an inventory attribute of the provider: absent, or holding the list v
NotSet == [set |-> FALSE, val |-> <<>>]
Memo(v) == [set |-> TRUE, val |-> v]

\* the optional listing methods of a driver
OptionalListings == {"ex_list_networks", "ex_list_security_groups"}

\* n entries of the listing history for the call o
Listed(o, ok, n) == [k \in 1..n |-> [op |-> o, ok |-> ok]]

\* mutant: the images property lists the images on every read
images_NoMemo(cache, listed) == [memo |-> Memo(listed), listed |-> 1]

\* the images property: the new self._images (the property returns its val)
\* and the number of driver.list_images() calls made
images(cache, listed) ==
    IF cache.set THEN [memo |-> cache, listed |-> 0]
    ELSE [memo |-> Memo(listed), listed |-> 1]

\* the sizes property
sizes(cache, listed) ==
    IF cache.set THEN [memo |-> cache, listed |-> 0]
    ELSE [memo |-> Memo(listed), listed |-> 1]

\* the networks property: a driver without ex_list_networks raises
\* AttributeError, which leaves an empty list in self._networks
networks(cache, has, listed) ==
    IF cache.set THEN [memo |-> cache, listed |-> 0]
    ELSE [memo |-> Memo(IF has THEN listed ELSE <<>>), listed |-> 1]

\* the security_groups property
security_groups(cache, has, listed) ==
    IF cache.set THEN [memo |-> cache, listed |-> 0]
    ELSE [memo |-> Memo(IF has THEN listed ELSE <<>>), listed |-> 1]

(* ------------------------ the image property -------------------------- *)

\* os_specs: '{os_type} {os_version}', '{os_type}-{os_version}'
os_specs == <<" ", "-">>

\* spec.format(os_type=self.os_type, os_version=self.os_version)
format(sep, t, v) == t \o <<sep>> \o v

\* matches = [image for image in self.provider.images if ... in image.name.lower()]
image_matches(sep, imgs, t, v) ==
    SelectSeq(imgs, LAMBDA im : contains(lower(im.name), format(sep, t, v)))

\* the specs the for loop of the image property goes through: it breaks at the
\* first one with matches
specs_tried(imgs, t, v) ==
    IF image_matches(os_specs[1], imgs, t, v) # <<>> THEN 1 ELSE 2

\* mutant: the hyphenated spec is tried first
image_HyphenFirst(imgs, t, v) ==
    LET m2 == image_matches(os_specs[2], imgs, t, v)
        matches == IF m2 # <<>> THEN m2 ELSE image_matches(os_specs[1], imgs, t, v)
    IN  IF matches = <<>> THEN [kind |-> "IndexError", val |-> NoImage]
        ELSE [kind |-> "image", val |-> matches[1]]

\* mutant: without a match the property returns the first image of the catalog
image_Default(imgs, t, v) ==
    LET m1 == image_matches(os_specs[1], imgs, t, v)
        matches == IF m1 # <<>> THEN m1 ELSE image_matches(os_specs[2], imgs, t, v)
    IN  IF matches = <<>>
        THEN [kind |-> "image", val |-> IF imgs = <<>> THEN NoImage ELSE imgs[1]]
        ELSE [kind |-> "image", val |-> matches[1]]

\* the image property: matches[0] of the matches of the last spec tried;
\* with no match for either spec matches[0] raises IndexError
image(imgs, t, v) ==
    LET m1 == image_matches(os_specs[1], imgs, t, v)
        matches == IF m1 # <<>> THEN m1 ELSE image_matches(os_specs[2], imgs, t, v)
    IN  IF matches = <<>> THEN [kind |-> "IndexError", val |-> NoImage]
        ELSE [kind |-> "image", val |-> matches[1]]

(* ------------------------- the size property -------------------------- *)

\* good_size(size)
good_size(sz, m) == ~(sz.ram < m.ram \/ sz.disk < m.disk \/ sz.vcpus < m.cpus)

\* (a.ram, a.disk, a.vcpus) < (b.ram, b.disk, b.vcpus), as Python orders tuples
key_less(a, b) ==
    \/ a.ram < b.ram
    \/ a.ram = b.ram /\ a.disk < b.disk
    \/ a.ram = b.ram /\ a.disk = b.disk /\ a.vcpus < b.vcpus

RECURSIVE insert(_, _)
\* the sorted list s with x put behind the entries that are not greater
insert(s, x) ==
    IF s = <<>> THEN <<x>>
    ELSE IF key_less(x, Head(s)) THEN <<x>> \o s
    ELSE <<Head(s)>> \o insert(Tail(s), x)

RECURSIVE sorted(_)
\* sorted(good_sizes, key=lambda s: (s.ram, s.disk, s.vcpus)): a stable sort
sorted(s) ==
    IF s = <<>> THEN <<>>
    ELSE insert(sorted(SubSeq(s, 1, Len(s) - 1)), s[Len(s)])

\* mutant: the first good size of the catalog, unsorted
size_FirstGood(all_sizes, m) ==
    LET good_sizes == SelectSeq(all_sizes, LAMBDA sz : good_size(sz, m))
    IN  IF good_sizes = <<>> THEN [kind |-> "IndexError", val |-> NoSize]
        ELSE [kind |-> "size", val |-> good_sizes[1]]

\* mutant: without a good size the property returns the largest of the catalog
size_Largest(all_sizes, m) ==
    LET good_sizes == SelectSeq(all_sizes, LAMBDA sz : good_size(sz, m))
    IN  IF good_sizes = <<>>
        THEN [kind |-> "size",
              val |-> IF all_sizes = <<>> THEN NoSize
                      ELSE sorted(all_sizes)[Len(all_sizes)]]
        ELSE [kind |-> "size", val |-> sorted(good_sizes)[1]]

\* the size property: sorted(good_sizes, key=...)[0]; with no good size the
\* subscript raises IndexError
size(all_sizes, m) ==
    LET good_sizes == SelectSeq(all_sizes, LAMBDA sz : good_size(sz, m))
    IN  IF good_sizes = <<>> THEN [kind |-> "IndexError", val |-> NoSize]
        ELSE [kind |-> "size", val |-> sorted(good_sizes)[1]]

(* ---------------------------- _read_conf ------------------------------ *)

\* A dict is a set of <<key, value>> pairs.  A topic of a source is None
\* (null, or the key is missing) or a dict.
Null == [null |-> TRUE, d |-> {}]
Topic(d) == [null |-> FALSE, d |-> d]

\* conf_topics
conf_topics == {"machine", "volumes"}

\* a source without any topic: dict()
NoConf == [machine |-> Null, volumes |-> Null]

\* defaults['openstack']
defaults ==
    [machine |-> Topic({<<"disk", 20>>, <<"ram", 8000>>, <<"cpus", 1>>}),
     volumes |-> Topic({<<"count", 0>>, <<"size", 0>>})]

\* d[key]; KeyError stands for the exception of a missing key
KeyError == -1
Get(d, key) ==
    IF \E kv \in d : kv[1] = key
    THEN (CHOOSE kv \in d : kv[1] = key)[2]
    ELSE KeyError

\* mutant: the topic is put together from all sources, the first one having a
\* key giving its value
resolve_Merged(topic, srcs) ==
    LET keys == UNION { {kv[1] : kv \in srcs[k][topic].d} : k \in 1..Len(srcs) }
        first(key) == CHOOSE k \in 1..Len(srcs) :
            /\ \E kv \in srcs[k][topic].d : kv[1] = key
            /\ \A j \in 1..(k - 1) : ~\E kv \in srcs[j][topic].d : kv[1] = key
    IN  Topic({ <<key, Get(srcs[first(key)][topic].d, key)>> : key \in keys })

\* for obj in (full_conf, driver_conf, legacy_conf, defaults): the deepcopy of
\* obj[topic] of the first obj where it is not None; without one the topic is
\* not set in self.conf
resolve(topic, srcs) ==
    IF \A k \in 1..Len(srcs) : srcs[k][topic].null THEN Null
    ELSE srcs[CHOOSE k \in 1..Len(srcs) :
                /\ ~srcs[k][topic].null
                /\ \A j \in 1..(k - 1) : srcs[j][topic].null][topic]

\* self.conf after _read_conf(conf)
_read_conf(full, legacy) ==
    LET driver_conf == full.openstack
        srcs == <<[machine |-> full.machine, volumes |-> full.volumes],
                  driver_conf, legacy, defaults>>
    IN  [topic \in conf_topics |-> resolve(topic, srcs)]

\* the dicts a source may give for a topic
MachineDicts ==
    { {<<"disk", 10>>, <<"ram", 4000>>, <<"cpus", 2>>},
      {<<"ram", 16000>>} }
VolumesDicts ==
    { {<<"count", 2>>, <<"size", 10>>},
      {<<"count", 1>>} }

\* the sources a configuration may have
Sources ==
    { [machine |-> m, volumes |-> v] :
        m \in {Null} \cup {Topic(d) : d \in MachineDicts},
        v \in {Null} \cup {Topic(d) : d \in VolumesDicts} }

\* self.conf['machine'] as the size property reads it
MachineOf(c) ==
    [ram |-> Get(c["machine"].d, "ram"),
     disk |-> Get(c["machine"].d, "disk"),
     cpus |-> Get(c["machine"].d, "cpus")]

(* ------------------------------- Init --------------------------------- *)

NoRet == [images |-> <<>>, sizes |-> <<>>, networks |-> <<>>, security_groups |-> <<>>]

\* no operation of the session has run, and no accessor of its provider
NotStarted ==
    /\ _node = Unset
    /\ op = "none"
    /\ i = 1
    /\ volume = 0
    /\ our_volumes = <<>>
    /\ vol = 1
    /\ caller = "none"
    /\ tries = 0
    /\ faults = 0
    /\ vols_ret = "none"
    /\ create_res = "none"
    /\ destroy_res = "none"
    /\ exc = "none"
    /\ calls = <<>>
    /\ _sizes = NotSet
    /\ _images = NotSet
    /\ _networks = NotSet
    /\ _security_groups = NotSet
    /\ listings = <<>>
    /\ returns = <<>>
    /\ ret = NoRet
    /\ create_args = NoArgs
    /\ opened = 0

\* a backend whose catalogs hold a size and an image for the session
DefaultCatalogs ==
    /\ driver_sizes = ExampleSizes
    /\ driver_images = DefaultImages
    /\ driver_networks = <<1>>
    /\ driver_security_groups = <<1>>
    /\ driver_ex = OptionalListings

\* __init__ has run _read_conf on a conf argument giving the volume count (and
\* the machine m, if not Null)
Configured(m) ==
    /\ full_conf = [machine |-> m,
                    volumes |-> Topic({<<"count", count>>, <<"size", 1>>}),
                    openstack |-> NoConf]
    /\ legacy_conf = NoConf
    /\ conf = _read_conf(full_conf, legacy_conf)
    /\ machine = MachineOf(conf)

Init ==
    /\ name \in SessionNames
    /\ count \in 0..MaxVolCount
    /\ nodes \in PreNodeLists
    /\ volumes \in PreVolumeLists
    /\ NotStarted
    /\ pc = "idle"
    /\ DefaultCatalogs
    /\ os_type = Ubuntu
    /\ os_version = V1604
    /\ key_file = DefaultKeyFile
    /\ Configured(Null)

\* an empty account
EmptyAccount ==
    /\ name \in SessionNames
    /\ nodes = <<>>
    /\ volumes = <<>>

\* sessions for the create arguments: any size catalog with any machine, or
\* any image catalog with any os_type, or any key file
InitArgs ==
    /\ EmptyAccount
    /\ count = 0
    /\ NotStarted
    /\ pc = "idle"
    /\ driver_networks = <<1>>
    /\ driver_security_groups = <<1>>
    /\ driver_ex = OptionalListings
    /\ os_version = V1604
    /\ \/ /\ driver_sizes \in SizeCatalogs
          /\ driver_images = DefaultImages
          /\ os_type = Ubuntu
          /\ key_file = DefaultKeyFile
          /\ \E m \in Machines :
                Configured(Topic({<<"ram", m.ram>>, <<"disk", m.disk>>,
                                  <<"cpus", m.cpus>>}))
       \/ /\ driver_sizes = ExampleSizes
          /\ driver_images \in ImageCatalogs
          /\ os_type \in {Ubuntu, UbuntuCap, Centos}
          /\ key_file = DefaultKeyFile
          /\ Configured(Null)
       \/ /\ driver_sizes = ExampleSizes
          /\ driver_images = DefaultImages
          /\ os_type = Ubuntu
          /\ key_file \in KeyFiles
          /\ Configured(Null)

\* sessions whose provider's accessors are read: drivers with and without the
\* optional listings
InitProvider ==
    /\ EmptyAccount
    /\ count = 0
    /\ NotStarted
    /\ pc = "idle"
    /\ driver_sizes = ExampleSizes
    /\ driver_images = DefaultImages \o <<[id |-> 2, name |-> Centos \o <<" ", "7">>]>>
    /\ driver_networks = <<1, 2>>
    /\ driver_security_groups = <<1, 2>>
    /\ driver_ex \in SUBSET OptionalListings
    /\ os_type = Ubuntu
    /\ os_version = V1604
    /\ key_file = DefaultKeyFile
    /\ Configured(Null)

\* sessions under construction: __init__ has not run _read_conf yet; the conf
\* argument, its section 'openstack' and the legacy section are any sources
InitConf ==
    /\ EmptyAccount
    /\ NotStarted
    /\ pc = "new"
    /\ DefaultCatalogs
    /\ os_type = Ubuntu
    /\ os_version = V1604
    /\ key_file = DefaultKeyFile
    /\ full_conf \in { [machine |-> a.machine, volumes |-> a.volumes, openstack |-> b]
                        : a \in Sources, b \in Sources }
    /\ legacy_conf \in Sources
    /\ conf = NoConf
    /\ count = KeyError
    /\ machine = MachineOf(NoConf)

\* sessions that create up to MaxNameCount volumes
InitNames ==
    /\ EmptyAccount
    /\ count \in 1..MaxNameCount
    /\ NotStarted
    /\ pc = "idle"
    /\ DefaultCatalogs
    /\ os_type = Ubuntu
    /\ os_version = V1604
    /\ key_file = DefaultKeyFile
    /\ Configured(Null)

(* ------------------------- control helpers ---------------------------- *)

\* the outcomes a call that can fail may have now
Outcomes == IF CanFail THEN BOOLEAN ELSE {TRUE}

Count(ok) == faults' = IF ok THEN faults ELSE faults + 1

\* the operation goes on to its next call
Goto(next) ==
    /\ pc' = next
    /\ UNCHANGED <<op, create_res, destroy_res, exc>>

\* an exception leaves the operation o
Raise(o, kind) ==
    /\ pc' = "idle"
    /\ op' = "none"
    /\ exc' = kind
    /\ create_res' = IF o = "_create" THEN "raised" ELSE create_res
    /\ destroy_res' = IF o = "_destroy" THEN "raised" ELSE destroy_res

\* _create returns self.node
ReturnNode ==
    /\ pc' = "idle"
    /\ op' = "none"
    /\ create_res' = "returned"
    /\ UNCHANGED <<destroy_res, exc>>

\* _destroy returns v
ReturnDestroy(v) ==
    /\ pc' = "idle"
    /\ op' = "none"
    /\ destroy_res' = v
    /\ UNCHANGED <<create_res, exc>>

(* ------------------------------ _create ------------------------------- *)

\* _create is called: the log lines read self.size and self.image, create_args
\* reads them again and self.userdata, then self.provider.networks is read; a
\* property that finds
\* nothing raises IndexError out of _create.  (provider.conf names no security
\* groups: self.security_groups is None.)
Create ==
    /\ pc = "idle"
    /\ create_res = "none"
    /\ destroy_res = "none"
    /\ LET s1 == sizes(_sizes, driver_sizes)
           s2 == sizes(s1.memo, driver_sizes)
           sz == size(s2.memo.val, machine)
           i1 == images(_images, driver_images)
           n1 == specs_tried(i1.memo.val, os_type, os_version)
           i2 == IF n1 > 1 THEN images(i1.memo, driver_images)
                 ELSE [memo |-> i1.memo, listed |-> 0]
           i3 == images(i2.memo, driver_images)
           i4 == IF n1 > 1 THEN images(i3.memo, driver_images)
                 ELSE [memo |-> i3.memo, listed |-> 0]
           img == image(i4.memo.val, os_type, os_version)
           ssh_pubkey == get_user_ssh_pubkey(key_file)
           nw == networks(_networks, "ex_list_networks" \in driver_ex, driver_networks)
       IN  IF size(s1.memo.val, machine).kind = "IndexError"
           THEN /\ Raise("_create", "IndexError")
                /\ _sizes' = s1.memo
                /\ listings' = listings \o Listed("list_sizes", TRUE, s1.listed)
                /\ UNCHANGED <<_images, _networks, create_args, opened>>
           ELSE IF image(i2.memo.val, os_type, os_version).kind = "IndexError"
           THEN /\ Raise("_create", "IndexError")
                /\ _sizes' = s1.memo
                /\ _images' = i2.memo
                /\ listings' = listings
                        \o Listed("list_sizes", TRUE, s1.listed)
                        \o Listed("list_images", TRUE, i1.listed + i2.listed)
                /\ UNCHANGED <<_networks, create_args, opened>>
           ELSE /\ pc' = "create_node"
                /\ op' = "_create"
                /\ _sizes' = s2.memo
                /\ _images' = i4.memo
                /\ _networks' = nw.memo
                /\ listings' = listings
                        \o Listed("list_sizes", TRUE, s1.listed)
                        \o Listed("list_images", TRUE, i1.listed + i2.listed)
                        \o Listed("list_sizes", TRUE, s2.listed)
                        \o Listed("list_images", TRUE, i3.listed + i4.listed)
                        \o Listed("ex_list_networks", "ex_list_networks" \in driver_ex,
                                  nw.listed)
                /\ opened' = opened + ssh_pubkey.opened
                /\ create_args' = [size |-> sz.val, image |-> img.val,
                                   ex_userdata |-> userdata(ssh_pubkey),
                                   networks |-> nw.memo.val]
                /\ UNCHANGED <<create_res, destroy_res, exc>>
    /\ UNCHANGED <<name, count, nodes, volumes, _node, i, volume, our_volumes,
                   vol, caller, tries, faults, vols_ret, calls>>
    /\ UNCHANGED <<driver_sizes, driver_images, driver_networks,
                   driver_security_groups, driver_ex, _security_groups, returns,
                   ret, machine, os_type, os_version, full_conf, legacy_conf, conf,
                   key_file>>

\* self._node = self.provider.driver.create_node(**create_args)
create_node ==
    /\ pc = "create_node"
    /\ \E ok \in Outcomes :
        /\ Log("create_node", SessionNodeId, ok)
        /\ Count(ok)
        /\ IF ok
           THEN /\ nodes' = Append(nodes, [id |-> SessionNodeId, name |-> name])
                /\ _node' = SessionNodeId
                /\ Goto("wait_until_running")
           ELSE /\ UNCHANGED <<nodes, _node>>
                /\ Raise("_create", "create_node")
    /\ UNCHANGED args_vars
    /\ UNCHANGED <<name, count, volumes, i, volume, our_volumes, vol, caller,
                   tries, vols_ret>>

\* mutant: _create goes from the volumes straight to the settle delay
AfterCreateVolumes_NoDns(r) ==
    /\ vols_ret' = r
    /\ Goto("sleep")

\* self._create_volumes() has returned r ("True" or "False"): _create drops
\* the value and calls self._update_dns()
AfterCreateVolumes(r) ==
    /\ vols_ret' = r
    /\ Goto("_update_dns")

\* results = self.provider.driver.wait_until_running(nodes=[self.node]); then
\* _create_volumes starts: with no name in vol_names it returns True at once
wait_until_running ==
    /\ pc = "wait_until_running"
    /\ \E ok \in Outcomes :
        /\ Log("wait_until_running", _node, ok)
        /\ Count(ok)
        /\ IF ok
           THEN IF count <= 0
                THEN AfterCreateVolumes("True")
                ELSE Goto("create_volume") /\ UNCHANGED vols_ret
           ELSE Raise("_create", "wait_until_running") /\ UNCHANGED vols_ret
    /\ i' = 1
    /\ UNCHANGED args_vars
    /\ UNCHANGED <<name, count, nodes, volumes, _node, volume, our_volumes,
                   vol, caller, tries>>

\* except Exception: log.exception(...); self._destroy_volumes(); return False
CreateVolumesFailed ==
    /\ caller' = "_create_volumes"
    /\ Goto("list_volumes")
    /\ UNCHANGED vols_ret

\* mutant: every volume of vol_names is created before any is attached
create_volume_AllFirst ==
    /\ pc = "create_volume"
    /\ \E ok \in Outcomes :
        /\ Log("create_volume", VolumeId(i), ok)
        /\ Count(ok)
        /\ IF ok
           THEN /\ volumes' = Append(volumes,
                        Vol(VolumeId(i), vol_names(name, count)[i], 1))
                /\ volume' = VolumeId(i)
                /\ IF i >= count
                   THEN Goto("attach_volume") /\ UNCHANGED i
                   ELSE Goto("create_volume") /\ i' = i + 1
                /\ UNCHANGED <<caller, vols_ret>>
           ELSE /\ UNCHANGED <<volumes, volume, i>>
                /\ CreateVolumesFailed
    /\ UNCHANGED args_vars
    /\ UNCHANGED <<name, count, nodes, _node, our_volumes, vol, tries>>

\* volume = self.provider.driver.create_volume(vol_size, name)
create_volume ==
    /\ pc = "create_volume"
    /\ \E ok \in Outcomes :
        /\ Log("create_volume", VolumeId(i), ok)
        /\ Count(ok)
        /\ IF ok
           THEN /\ volumes' = Append(volumes,
                        Vol(VolumeId(i), vol_names(name, count)[i], 1))
                /\ volume' = VolumeId(i)
                /\ Goto("attach_volume")
                /\ UNCHANGED <<caller, vols_ret>>
           ELSE /\ UNCHANGED <<volumes, volume>>
                /\ CreateVolumesFailed
    /\ UNCHANGED args_vars
    /\ UNCHANGED <<name, count, nodes, _node, i, our_volumes, vol, tries>>

\* self.provider.driver.attach_volume(self.node, volume, device=None); then
\* the next name of vol_names, or return True
attach_volume ==
    /\ pc = "attach_volume"
    /\ \E ok \in Outcomes :
        /\ Log("attach_volume", volume, ok)
        /\ Count(ok)
        /\ IF ok
           THEN /\ volumes' = [k \in 1..Len(volumes) |->
                        IF volumes[k].id = volume
                        THEN [volumes[k] EXCEPT !.att = _node]
                        ELSE volumes[k]]
                /\ UNCHANGED caller
                /\ IF i >= count
                   THEN AfterCreateVolumes("True") /\ UNCHANGED i
                   ELSE Goto("create_volume") /\ i' = i + 1 /\ UNCHANGED vols_ret
           ELSE /\ UNCHANGED <<volumes, i>>
                /\ CreateVolumesFailed
    /\ UNCHANGED args_vars
    /\ UNCHANGED <<name, count, nodes, _node, volume, our_volumes, vol, tries>>

(* -------------------------- _destroy_volumes -------------------------- *)

\* mutant: the filter compares the whole name, vol.name == self.name
OurVolumes_WholeName(all_volumes, nm) ==
    LET ours == SelectSeq(all_volumes, LAMBDA v : v.name = nm)
    IN  [k \in 1..Len(ours) |-> ours[k].id]

\* mutant: no filter, our_volumes = all_volumes
OurVolumes_Unfiltered(all_volumes, nm) ==
    [k \in 1..Len(all_volumes) |-> all_volumes[k].id]

\* our_volumes: the listed volumes whose name starts with "%s_" % self.name
OurVolumes(all_volumes, nm) ==
    LET ours == SelectSeq(all_volumes, LAMBDA v : startswith(v.name, prefix(nm)))
    IN  [k \in 1..Len(ours) |-> ours[k].id]

\* _destroy_volumes is over: back in the except clause of _create_volumes
\* (return False) or in _destroy (return self.node.destroy())
AfterDestroyVolumes ==
    IF caller = "_create_volumes"
    THEN AfterCreateVolumes("False")
    ELSE /\ Goto("node_destroy")
         /\ UNCHANGED vols_ret

\* all_volumes = self.provider.driver.list_volumes(), and the filter
list_volumes ==
    /\ pc = "list_volumes"
    /\ \E ok \in Outcomes :
        /\ Log("list_volumes", 0, ok)
        /\ Count(ok)
        /\ IF ok
           THEN /\ our_volumes' = OurVolumes(volumes, name)
                /\ IF our_volumes' = <<>>
                   THEN AfterDestroyVolumes
                   ELSE Goto("detach_volume") /\ UNCHANGED vols_ret
           ELSE /\ UNCHANGED <<our_volumes, vols_ret>>
                /\ Raise(op, "list_volumes")
    /\ vol' = 1
    /\ UNCHANGED args_vars
    /\ UNCHANGED <<name, count, nodes, volumes, _node, i, volume, caller, tries>>

\* mutant: no try around detach_volume, its exception leaves _destroy_volumes
DetachFailed_Raises == Raise(op, "detach_volume")

\* except Exception: log.exception("Could not detach volume %s", vol)
DetachFailed == Goto("destroy_volume")

\* try: self.provider.driver.detach_volume(vol)
detach_volume ==
    /\ pc = "detach_volume"
    /\ \E ok \in Outcomes :
        /\ Log("detach_volume", our_volumes[vol], ok)
        /\ Count(ok)
        /\ IF ok
           THEN /\ volumes' = [k \in 1..Len(volumes) |->
                        IF volumes[k].id = our_volumes[vol]
                        THEN [volumes[k] EXCEPT !.att = 0]
                        ELSE volumes[k]]
                /\ Goto("destroy_volume")
           ELSE /\ UNCHANGED volumes
                /\ DetachFailed
    /\ UNCHANGED args_vars
    /\ UNCHANGED <<name, count, nodes, _node, i, volume, our_volumes, vol,
                   caller, tries, vols_ret>>

\* the for loop goes to the next vol of our_volumes, or _destroy_volumes ends
NextVol ==
    IF vol >= Len(our_volumes)
    THEN AfterDestroyVolumes /\ UNCHANGED vol
    ELSE Goto("detach_volume") /\ vol' = vol + 1 /\ UNCHANGED vols_ret

\* mutant: a failed destroy_volume ends the loop (break)
DestroyFailed_Breaks == AfterDestroyVolumes /\ UNCHANGED vol

\* except Exception: log.exception("Could not destroy volume %s", vol)
DestroyFailed == NextVol

\* try: self.provider.driver.destroy_volume(vol)
destroy_volume ==
    /\ pc = "destroy_volume"
    /\ \E ok \in Outcomes :
        /\ Log("destroy_volume", our_volumes[vol], ok)
        /\ Count(ok)
        /\ IF ok
           THEN /\ volumes' = SeqRemove(volumes, our_volumes[vol])
                /\ NextVol
           ELSE /\ UNCHANGED volumes
                /\ DestroyFailed
    /\ UNCHANGED args_vars
    /\ UNCHANGED <<name, count, nodes, _node, i, volume, our_volumes, caller,
                   tries>>

(* ---------------------- _update_dns, _wait_for_ready ------------------- *)

\* mutant: the response's status is not looked at (no raise_for_status)
DnsRejected_Ignored == Goto("sleep")

\* resp.raise_for_status() on a non-2xx response: HTTPError leaves _create
DnsRejected == Raise("_create", "raise_for_status")

\* resp = requests.get(nsupdate_url); resp.raise_for_status()
_update_dns ==
    /\ pc = "_update_dns"
    /\ \E ok \in Outcomes :
        /\ Log("nsupdate", _node, ok)
        /\ Count(ok)
        /\ IF ok THEN Goto("sleep") ELSE DnsRejected
    /\ UNCHANGED args_vars
    /\ UNCHANGED <<name, count, nodes, volumes, _node, i, volume, our_volumes,
                   vol, caller, tries, vols_ret>>

\* time.sleep(20)
sleep ==
    /\ pc = "sleep"
    /\ Log("sleep", 0, TRUE)
    /\ Goto("connect")
    /\ UNCHANGED args_vars
    /\ UNCHANGED <<name, count, nodes, volumes, _node, i, volume, our_volumes,
                   vol, caller, tries, faults, vols_ret>>

\* safe_while(sleep=6, tries=20): once that many tries were made, the next
\* proceed() raises MaxWhileTries instead of allowing another pass
Exhausted(made) == made >= Tries

\* what self.remote.connect() can do: connect, or raise one of these
ConnectErrors ==
    {"socket.error", "NoValidConnectionsError", "AuthenticationException",
     "Exception"}

\* mutant: the except clause names socket.error alone
Retried_SocketOnly(e) == e = "socket.error"

\* except (socket.error, NoValidConnectionsError, AuthenticationException): pass
Retried(e) ==
    e \in {"socket.error", "NoValidConnectionsError", "AuthenticationException"}

\* mutant: while True instead of while proceed(): a retried error always
\* leads to another attempt (the counter stops counting at Tries)
connect_Forever ==
    /\ pc = "connect"
    /\ \E e \in {"ok"} \cup {x \in ConnectErrors : Retried(x) \/ CanFail} :
        /\ Count(e = "ok" \/ Retried(e))
        /\ CASE e = "ok" ->
                    /\ Goto("run")
                    /\ tries' = 0
                    /\ Log("connect", 0, TRUE)
             [] e # "ok" /\ ~Retried(e) ->
                    /\ Raise("_create", e)
                    /\ tries' = 0
                    /\ Log("connect", 0, FALSE)
             [] e # "ok" /\ Retried(e) ->
                    /\ Goto("connect")
                    /\ tries' = IF tries < Tries THEN tries + 1 ELSE tries
                    /\ UNCHANGED calls
    /\ UNCHANGED args_vars
    /\ UNCHANGED <<name, count, nodes, volumes, _node, i, volume, our_volumes,
                   vol, caller, vols_ret>>

\* mutant: one connect attempt whose retried errors are passed over, with no
\* loop around it: the remote command is run whether or not it connected
connect_Unchecked ==
    /\ pc = "connect"
    /\ \E e \in {"ok"} \cup {x \in ConnectErrors : Retried(x) \/ CanFail} :
        /\ Count(e = "ok" \/ Retried(e))
        /\ Log("connect", 0, e = "ok")
        /\ IF e = "ok" \/ Retried(e)
           THEN Goto("run")
           ELSE Raise("_create", e)
    /\ tries' = 0
    /\ UNCHANGED args_vars
    /\ UNCHANGED <<name, count, nodes, volumes, _node, i, volume, our_volumes,
                   vol, caller, vols_ret>>

\* one pass of the safe_while loop: self.remote.connect() connects ("ok") or
\* raises e; a retried e goes to the next proceed(), which raises MaxWhileTries
\* after the last allowed try; any other e leaves _create.  The history gets
\* one entry when the loop is left; the loop's counter ends with the with block.
connect ==
    /\ pc = "connect"
    /\ \E e \in {"ok"} \cup {x \in ConnectErrors : Retried(x) \/ CanFail} :
        /\ Count(e = "ok" \/ Retried(e))
        /\ CASE e = "ok" ->
                    /\ Goto("run")
                    /\ tries' = 0
                    /\ Log("connect", 0, TRUE)
             [] e # "ok" /\ ~Retried(e) ->
                    /\ Raise("_create", e)
                    /\ tries' = 0
                    /\ Log("connect", 0, FALSE)
             [] e # "ok" /\ Retried(e) ->
                    IF Exhausted(tries + 1)
                    THEN /\ Raise("_create", "MaxWhileTries")
                         /\ tries' = 0
                         /\ Log("connect", 0, FALSE)
                    ELSE /\ Goto("connect")
                         /\ tries' = tries + 1
                         /\ UNCHANGED calls
    /\ UNCHANGED args_vars
    /\ UNCHANGED <<name, count, nodes, volumes, _node, i, volume, our_volumes,
                   vol, caller, vols_ret>>

\* self.remote.run(args=cmd, timeout=600); return self.node
run ==
    /\ pc = "run"
    /\ \E ok \in Outcomes :
        /\ Log("run", 0, ok)
        /\ Count(ok)
        /\ IF ok THEN ReturnNode ELSE Raise("_create", "run")
    /\ UNCHANGED args_vars
    /\ UNCHANGED <<name, count, nodes, volumes, _node, i, volume, our_volumes,
                   vol, caller, tries, vols_ret>>

(* ------------------------------ _destroy ------------------------------ *)

\* matches = [node for node in nodes if node.name == self.name]
Matches(ns, nm) == SelectSeq(ns, LAMBDA n : n.name = nm)

\* mutant: with several matches the lookup takes matches[0]
node_FirstMatch(cached, ns, nm) ==
    IF cached # Unset THEN [kind |-> "node", id |-> cached]
    ELSE IF ns = <<>> THEN [kind |-> "AttributeError", id |-> Unset]
    ELSE IF Matches(ns, nm) = <<>> THEN [kind |-> "None", id |-> Unset]
    ELSE [kind |-> "node", id |-> Matches(ns, nm)[1].id]

\* the node property: the cached self._node, else the lookup in list_nodes().
\* With an empty list the for loop has no pass and return self._node raises
\* AttributeError.
node(cached, ns, nm) ==
    IF cached # Unset THEN [kind |-> "node", id |-> cached]
    ELSE IF ns = <<>> THEN [kind |-> "AttributeError", id |-> Unset]
    ELSE IF Matches(ns, nm) = <<>> THEN [kind |-> "None", id |-> Unset]
    ELSE IF Len(Matches(ns, nm)) > 1 THEN [kind |-> "RuntimeError", id |-> Unset]
    ELSE [kind |-> "node", id |-> Matches(ns, nm)[1].id]

\* mutant: _destroy destroys the node without tearing down the volumes first
DestroyFirst_Node == "node_destroy"

\* the call _destroy makes once it has its node: self._destroy_volumes()
DestroyFirst == "list_volumes"

\* _destroy is called: if not self.node: return True
Destroy ==
    /\ pc = "idle"
    /\ destroy_res = "none"
    /\ calls' = IF _node = Unset
                THEN Append(calls, Call("list_nodes", 0, TRUE, "_destroy"))
                ELSE calls
    /\ LET r == node(_node, nodes, name)
       IN  /\ _node' = r.id
           /\ CASE r.kind = "node" ->
                    /\ pc' = DestroyFirst
                    /\ op' = "_destroy"
                    /\ caller' = "_destroy"
                    /\ UNCHANGED <<create_res, destroy_res, exc>>
                [] r.kind = "None" ->
                    /\ ReturnDestroy("True")
                    /\ UNCHANGED caller
                [] OTHER ->
                    /\ Raise("_destroy", r.kind)
                    /\ UNCHANGED caller
    /\ UNCHANGED args_vars
    /\ UNCHANGED <<name, count, nodes, volumes, i, volume, our_volumes, vol,
                   tries, faults, vols_ret>>

\* return self.node.destroy()
node_destroy ==
    /\ pc = "node_destroy"
    /\ \E r \in (IF _node \in Ids(nodes) THEN {"True"} ELSE {})
                \cup (IF CanFail \/ _node \notin Ids(nodes)
                      THEN {"False", "raised"} ELSE {}) :
        /\ Log("node_destroy", _node, r = "True")
        /\ Count(r = "True")
        /\ nodes' = IF r = "True" THEN SeqRemove(nodes, _node) ELSE nodes
        /\ IF r = "raised"
           THEN Raise("_destroy", "node_destroy")
           ELSE ReturnDestroy(r)
    /\ UNCHANGED args_vars
    /\ UNCHANGED <<name, count, volumes, _node, i, volume, our_volumes, vol,
                   caller, tries, vols_ret>>

(* ------------- another session on the same backend account ------------ *)

\* the node names another session may have: none is this session's name, one
\* starts with this session's name and "_"
OtherNames == {Bar, Foo \o <<"_", "1">>}

\* the ids the backend hands out to the other session's node and volume
OtherNodeId == SessionNodeId + 1
OtherVolumeId == VolumeId(MaxVolCount + 1)

\* what a call of the other session leaves alone: all of this session's state
OtherSession ==
    /\ UNCHANGED args_vars
    /\ UNCHANGED <<name, count, nodes, _node, pc, op, i, volume, our_volumes,
                   vol, caller, tries, faults, vols_ret, create_res, destroy_res,
                   exc, calls>>

\* the other session's _create_volumes, with volumes.count = 1, creates its
\* volume: driver.create_volume(vol_size, "%s_%0{0}d" % (its name, 0)).  It
\* does so once, at any moment of this session's life.
other_create_volume ==
    /\ OtherVolumeId \notin Ids(volumes)
    /\ \A k \in 1..Len(calls) : calls[k].arg # OtherVolumeId
    /\ \E o \in OtherNames :
            volumes' = Append(volumes, Vol(OtherVolumeId, vol_names(o, 1)[1], 2))
    /\ OtherSession

\* the other session attaches the volume it created to its node
other_attach_volume ==
    /\ \E k \in 1..Len(volumes) :
            /\ volumes[k].id = OtherVolumeId
            /\ volumes[k].att = 0
    /\ \A k \in 1..Len(calls) : calls[k].arg # OtherVolumeId
    /\ volumes' = [k \in 1..Len(volumes) |->
                        IF volumes[k].id = OtherVolumeId
                        THEN [volumes[k] EXCEPT !.att = OtherNodeId]
                        ELSE volumes[k]]
    /\ OtherSession

(* ---------------- the provider's accessors, read alone ----------------- *)

\* what a read of an accessor from outside _create leaves alone
ReadOnly ==
    UNCHANGED <<name, count, nodes, volumes, _node, pc, op, i, volume,
                our_volumes, vol, caller, tries, faults, vols_ret, create_res,
                destroy_res, exc, calls, driver_sizes, driver_images,
                driver_networks, driver_security_groups, driver_ex, machine,
                os_type, os_version, create_args, full_conf, legacy_conf, conf,
                key_file, opened>>

\* provider.images is read
get_images ==
    /\ pc = "idle"
    /\ Len(returns) < MaxAccesses
    /\ LET r == images(_images, driver_images)
       IN  /\ _images' = r.memo
           /\ listings' = listings \o Listed("list_images", TRUE, r.listed)
           /\ ret' = [ret EXCEPT !.images = r.memo.val]
    /\ returns' = Append(returns, "images")
    /\ UNCHANGED <<_sizes, _networks, _security_groups>>
    /\ ReadOnly

\* provider.sizes is read
get_sizes ==
    /\ pc = "idle"
    /\ Len(returns) < MaxAccesses
    /\ LET r == sizes(_sizes, driver_sizes)
       IN  /\ _sizes' = r.memo
           /\ listings' = listings \o Listed("list_sizes", TRUE, r.listed)
           /\ ret' = [ret EXCEPT !.sizes = r.memo.val]
    /\ returns' = Append(returns, "sizes")
    /\ UNCHANGED <<_images, _networks, _security_groups>>
    /\ ReadOnly

\* provider.networks is read
get_networks ==
    /\ pc = "idle"
    /\ Len(returns) < MaxAccesses
    /\ LET has == "ex_list_networks" \in driver_ex
           r == networks(_networks, has, driver_networks)
       IN  /\ _networks' = r.memo
           /\ listings' = listings \o Listed("ex_list_networks", has, r.listed)
           /\ ret' = [ret EXCEPT !.networks = r.memo.val]
    /\ returns' = Append(returns, "networks")
    /\ UNCHANGED <<_images, _sizes, _security_groups>>
    /\ ReadOnly

\* provider.security_groups is read
get_security_groups ==
    /\ pc = "idle"
    /\ Len(returns) < MaxAccesses
    /\ LET has == "ex_list_security_groups" \in driver_ex
           r == security_groups(_security_groups, has, driver_security_groups)
       IN  /\ _security_groups' = r.memo
           /\ listings' = listings \o Listed("ex_list_security_groups", has, r.listed)
           /\ ret' = [ret EXCEPT !.security_groups = r.memo.val]
    /\ returns' = Append(returns, "security_groups")
    /\ UNCHANGED <<_images, _sizes, _networks>>
    /\ ReadOnly

\* the account changes under the session: the last entry of every catalog
\* goes away
BackendChanges ==
    /\ pc = "idle"
    /\ driver_images # <<>>
    /\ Len(driver_networks) > 1
    /\ driver_images' = SubSeq(driver_images, 1, Len(driver_images) - 1)
    /\ driver_sizes' = SubSeq(driver_sizes, 1, Len(driver_sizes) - 1)
    /\ driver_networks' = SubSeq(driver_networks, 1, Len(driver_networks) - 1)
    /\ driver_security_groups' =
            SubSeq(driver_security_groups, 1, Len(driver_security_groups) - 1)
    /\ UNCHANGED <<name, count, nodes, volumes, _node, pc, op, i, volume,
                   our_volumes, vol, caller, tries, faults, vols_ret, create_res,
                   destroy_res, exc, calls, driver_ex, _sizes, _images, _networks,
                   _security_groups, listings, returns, ret, machine, os_type,
                   os_version, create_args, full_conf, legacy_conf, conf,
                   key_file, opened>>

(* ------------------------------ __init__ ------------------------------ *)

\* __init__: self._read_conf(conf)
__init__ ==
    /\ pc = "new"
    /\ pc' = "idle"
    /\ conf' = _read_conf(full_conf, legacy_conf)
    /\ count' = Get(conf'["volumes"].d, "count")
    /\ machine' = MachineOf(conf')
    /\ UNCHANGED <<name, nodes, volumes, _node, op, i, volume, our_volumes, vol,
                   caller, tries, faults, vols_ret, create_res, destroy_res, exc,
                   calls, driver_sizes, driver_images, driver_networks,
                   driver_security_groups, driver_ex, _sizes, _images, _networks,
                   _security_groups, listings, returns, ret, os_type, os_version,
                   create_args, full_conf, legacy_conf, key_file, opened>>

(* ---------------------------- specification --------------------------- *)

Next ==
    \/ Create
    \/ create_node
    \/ wait_until_running
    \/ create_volume
    \/ attach_volume
    \/ list_volumes
    \/ detach_volume
    \/ destroy_volume
    \/ _update_dns
    \/ sleep
    \/ connect
    \/ run
    \/ Destroy
    \/ node_destroy

Spec == Init /\ [][Next]_vars

\* the selection of size and image: _create up to its create_node call
NextArgs ==
    \/ Create
    \/ create_node

SpecArgs == InitArgs /\ [][NextArgs]_vars

\* reads of the provider's accessors, in an account that changes
NextProvider ==
    \/ get_images
    \/ get_sizes
    \/ get_networks
    \/ get_security_groups
    \/ BackendChanges

SpecProvider == InitProvider /\ [][NextProvider]_vars

\* the construction of a session
NextConf == __init__

SpecConf == InitConf /\ [][NextConf]_vars

\* _create up to the end of _create_volumes
NextNames ==
    \/ Create
    \/ create_node
    \/ wait_until_running
    \/ create_volume
    \/ attach_volume

SpecNames == InitNames /\ [][NextNames]_vars

\* one run of _create, from its call to its return or exception, in an account
\* that may hold volumes of earlier sessions
InitCreate ==
    /\ Init
    /\ nodes = <<>>

NextCreate ==
    \/ Create
    \/ create_node
    \/ wait_until_running
    \/ create_volume
    \/ attach_volume
    \/ list_volumes
    \/ detach_volume
    \/ destroy_volume
    \/ _update_dns
    \/ sleep
    \/ connect
    \/ run

SpecCreate == InitCreate /\ [][NextCreate]_vars

\* every call of _create returns or raises: a run of _create that can take a
\* step takes one
FairCreate == SpecCreate /\ WF_vars(NextCreate)

\* this session's life in an account where another session, with another node
\* name, creates and attaches a volume of its own
InitShared ==
    /\ EmptyAccount
    /\ count \in 0..MaxVolCount
    /\ NotStarted
    /\ pc = "idle"
    /\ DefaultCatalogs
    /\ os_type = Ubuntu
    /\ os_version = V1604
    /\ key_file = DefaultKeyFile
    /\ Configured(Null)

NextShared ==
    \/ Next
    \/ other_create_volume
    \/ other_attach_volume

SpecShared == InitShared /\ [][NextShared]_vars

(* ------------------------- reading the history ------------------------ *)

Range(s) == {s[k] : k \in 1..Len(s)}

\* the positions of the history holding a call o made by operation in
Where(o, in) == {k \in 1..Len(calls) : calls[k].op = o /\ calls[k].in = in}

\* the ids operation in passed to call o
Touched(o, in) == {calls[k].arg : k \in Where(o, in)}

\* the positions where a volume create or attach of _create_volumes failed
VolumeFailures ==
    {k \in 1..Len(calls) :
        calls[k].op \in {"create_volume", "attach_volume"} /\ ~calls[k].ok}

\* the volumes this run of _create_volumes created
CreatedHere ==
    {calls[k].arg : k \in {j \in 1..Len(calls) :
        calls[j].op = "create_volume" /\ calls[j].ok}}

\* the name of the volume with this id
VolumeName(id) ==
    IF id <= Len(PreVolumeNames) THEN PreVolumeNames[id]
    ELSE vol_names(name, count)[id - Len(PreVolumeNames)]

\* the detach and destroy calls operation in made, in order
TeardownCalls(in) ==
    SelectSeq(calls, LAMBDA c :
        c.in = in /\ c.op \in {"detach_volume", "destroy_volume"})

\* a detach or destroy step of operation in failed
TeardownStepFailed(in) ==
    \E k \in 1..Len(calls) :
        /\ calls[k].in = in
        /\ ~calls[k].ok
        /\ calls[k].op \in {"detach_volume", "destroy_volume"}

\* the volume listing of operation in failed
ListingFailed(in) ==
    \E k \in 1..Len(calls) :
        calls[k].op = "list_volumes" /\ calls[k].in = in /\ ~calls[k].ok

\* the rollback of _create_volumes is over (or never ran)
RollbackOver ==
    caller = "_destroy" \/ pc \notin {"list_volumes", "detach_volume", "destroy_volume"}

\* the backend holds a volume whose name starts with "{node_name}_"
PrefixVolumeLeft ==
    \E k \in 1..Len(volumes) : startswith(volumes[k].name, name \o <<"_">>)

(* ------------------------------- claims ------------------------------- *)

\* C1: the node is never reported Ready (_create returns the node) unless the
\* backend reported it running and, with a volume count above 0, every
\* requested volume was created and attached successfully.
C1_ReadyOnlyWithVolumes ==
    create_res = "returned" =>
        /\ Call("wait_until_running", SessionNodeId, TRUE, "_create") \in Range(calls)
        /\ \A k \in 1..count :
            /\ Call("create_volume", VolumeId(k), TRUE, "_create") \in Range(calls)
            /\ Call("attach_volume", VolumeId(k), TRUE, "_create") \in Range(calls)

\* C2: after a failed volume create or attach, _create makes no DNS update and
\* no readiness probe, destroys the node and ends in failure.
C2_VolumeFailureEndsCreate ==
    /\ \A k \in VolumeFailures : \A j \in (k + 1)..Len(calls) :
            calls[j].op \notin {"nsupdate", "sleep", "connect", "run"}
    /\ (vols_ret = "False" /\ create_res # "none") =>
            /\ create_res = "raised"
            /\ Where("node_destroy", "_create") # {}

\* C3: when _create has failed after the backend node was created (a non-2xx
\* DNS response, a connectivity or initialization timeout), the backend holds
\* neither the node this _create made nor a volume it made.
C3_FailedCreateLeavesNothing ==
    (/\ create_res = "raised"
     /\ destroy_res = "none"
     /\ pc = "idle"
     /\ \E c \in Range(calls) :
            c.in = "_create" /\ ~c.ok /\ c.op \in {"nsupdate", "connect", "run"})
    => /\ SessionNodeId \notin Ids(nodes)
       /\ \A k \in 1..Len(volumes) : volumes[k].by # 1

\* no volume is created or attached after the failed calls F
NoFurtherVolumes(F) ==
    \A k \in F : \A j \in (k + 1)..Len(calls) :
        calls[j].op \notin {"create_volume", "attach_volume"}

C5_RollbackTouchesOnlyCreated ==
    /\ Touched("detach_volume", "_create") \subseteq CreatedHere
    /\ Touched("destroy_volume", "_create") \subseteq CreatedHere
    /\ (vols_ret = "False" /\ pc = "_update_dns") =>
            /\ Touched("detach_volume", "_create") = CreatedHere
            /\ Touched("destroy_volume", "_create") = CreatedHere

\* C5 as amended: the rollback detaches and destroys exactly the volumes the
\* backend lists with a name starting with "{node_name}_": all those this run
\* created, and those with the prefix that were there before; it touches no
\* volume without the prefix.
C5_RollbackTouchesPrefix ==
    LET detached == Touched("detach_volume", "_create")
        destroyed == Touched("destroy_volume", "_create")
    IN  /\ \A id \in detached \cup destroyed :
                startswith(VolumeName(id), name \o <<"_">>)
        /\ (caller = "_create_volumes" /\ pc \in {"detach_volume", "destroy_volume"}) =>
                \A k \in 1..Len(volumes) :
                    startswith(volumes[k].name, name \o <<"_">>)
                        => volumes[k].id \in Range(our_volumes)
        /\ (vols_ret = "False" /\ pc = "_update_dns") =>
                /\ detached = Range(our_volumes)
                /\ destroyed = Range(our_volumes)
                /\ CreatedHere \subseteq Range(our_volumes)

\* C5 witness: a rollback that destroyed a volume it created and a volume of
\* the same prefix that was there before, with a volume of another prefix
\* still in the backend
C5_Witness ==
    /\ vols_ret = "False"
    /\ pc = "_update_dns"
    /\ \E id \in Touched("destroy_volume", "_create") : id \in CreatedHere
    /\ \E id \in Touched("destroy_volume", "_create") : id \notin CreatedHere
    /\ \E k \in 1..Len(volumes) : ~startswith(volumes[k].name, name \o <<"_">>)

\* the calls of _destroy are its node lookup alone
OnlyLookedUp ==
    \A k \in 1..Len(calls) : calls[k].in = "_destroy" => calls[k].op = "list_nodes"

\* C6: _destroy with no backend node of the session's name (the empty node
\* list included) returns True without raising and makes no volume detach or
\* destroy and no node destroy call.
C6_DestroyOfNoNodeIsNoop ==
    (destroy_res # "none" /\ _node = Unset /\ Matches(nodes, name) = <<>>)
    => destroy_res = "True" /\ OnlyLookedUp

\* the lookup of the node property ran (self._node was not set)
LookedUp == \E k \in 1..Len(calls) : calls[k].op = "list_nodes"

\* C7: with more than one backend node of the session's name, wherever they
\* are in the node list, the lookup raises and picks none, and _destroy
\* destroys no node and no volume; with exactly one, that node is returned.
C7_LookupAmbiguityIsAnError ==
    LookedUp =>
        /\ (_node = Unset /\ Len(Matches(nodes, name)) > 1) =>
                /\ destroy_res = "raised"
                /\ exc = "RuntimeError"
                /\ OnlyLookedUp
        /\ _node # Unset =>
                \A k \in 1..Len(nodes) : nodes[k].name = name => nodes[k].id = _node
        /\ (Len(Matches(nodes, name)) = 1 /\ Where("node_destroy", "_destroy") = {}) =>
                _node = Matches(nodes, name)[1].id

\* C7 witness: the lookup raised on a list whose first node has another name
\* and whose second and third have the session's name
C7_Witness ==
    /\ LookedUp
    /\ destroy_res = "raised"
    /\ exc = "RuntimeError"
    /\ Len(nodes) = 3
    /\ nodes[1].name # name
    /\ nodes[2].name = name
    /\ nodes[3].name = name

C9_VolumesBeforeNode ==
    \A k \in Where("node_destroy", "_destroy") :
        /\ \E j \in 1..(k - 1) : calls[j] = Call("list_volumes", 0, TRUE, "_destroy")
        /\ \A j \in 1..Len(calls) :
                (calls[j].in = "_destroy"
                    /\ calls[j].op \in {"list_volumes", "detach_volume", "destroy_volume"})
                => j < k
        /\ \A id \in Range(our_volumes) :
                /\ \E j \in 1..(k - 1) : calls[j].in = "_destroy"
                        /\ calls[j].op = "detach_volume" /\ calls[j].arg = id
                /\ \E j \in 1..(k - 1) : calls[j].in = "_destroy"
                        /\ calls[j].op = "destroy_volume" /\ calls[j].arg = id

\* C9 witness: a session that never created anything destroyed a node after
\* tearing down a volume found by its name
C9_Witness ==
    /\ create_res = "none"
    /\ Where("node_destroy", "_destroy") # {}
    /\ Len(our_volumes) = 1
    /\ Len(TeardownCalls("_destroy")) = 2

\* the operation whose _destroy_volumes ran last
LastTeardown == IF caller = "_destroy" THEN "_destroy" ELSE "_create"

\* C10: _destroy_volumes attempts, for every volume named "{node_name}_..." and
\* in list order, a detach and then a destroy, whatever the outcome of the
\* detach and of the steps on the other volumes; no detach or destroy failure
\* ends the loop early or is raised.
C10_TeardownIsBestEffort ==
    /\ exc \notin {"detach_volume", "destroy_volume"}
    /\ caller # "none" =>
        LET T == TeardownCalls(LastTeardown)
        IN  /\ Len(T) <= 2 * Len(our_volumes)
            /\ \A m \in 1..Len(T) :
                /\ T[m].op = IF m % 2 = 1 THEN "detach_volume" ELSE "destroy_volume"
                /\ T[m].arg = our_volumes[(m + 1) \div 2]
            /\ pc \in {"detach_volume", "destroy_volume"} =>
                \A k \in 1..Len(volumes) :
                    startswith(volumes[k].name, name \o <<"_">>)
                        => volumes[k].id \in Range(our_volumes)
            /\ (pc \notin {"list_volumes", "detach_volume", "destroy_volume"}
                    /\ ~ListingFailed(LastTeardown))
                => Len(T) = 2 * Len(our_volumes)

\* C10 witness: a teardown of two volumes went through all four steps although
\* the detach and the destroy of the first volume failed
C10_Witness ==
    /\ caller # "none"
    /\ Len(our_volumes) = 2
    /\ Len(TeardownCalls(LastTeardown)) = 4
    /\ ~TeardownCalls(LastTeardown)[1].ok
    /\ ~TeardownCalls(LastTeardown)[2].ok
    /\ TeardownCalls(LastTeardown)[3].ok
    /\ TeardownCalls(LastTeardown)[4].ok

\* C11: the connectivity wait makes at most 20 connection attempts; an attempt
\* that connects ends the wait with success and no further attempt; an attempt
\* failing with socket.error, NoValidConnectionsError or AuthenticationException
\* is followed by another one unless it was the 20th, after which the wait
\* fails with MaxWhileTries; any other error leaves the wait at once with that
\* error.
C11_ConnectBudget ==
    [][pc = "connect" =>
        /\ tries < Tries
        /\ pc' \in {"connect", "run", "idle"}
        /\ pc' = "connect" => tries' = tries + 1 /\ tries' < Tries
        /\ pc' = "run" =>
                /\ calls' = Append(calls, Call("connect", 0, TRUE, "_create"))
                /\ create_res' = "none"
        /\ pc' = "idle" =>
                /\ create_res' = "raised"
                /\ calls' = Append(calls, Call("connect", 0, FALSE, "_create"))
                /\ exc' \in {"MaxWhileTries", "Exception"}
                /\ exc' = "MaxWhileTries" => tries = Tries - 1
    ]_vars

\* C11 witness: the wait has failed with MaxWhileTries and the sentinel
\* command was not run
C11_Witness ==
    /\ create_res = "raised"
    /\ exc = "MaxWhileTries"
    /\ Where("connect", "_create") # {}
    /\ Where("run", "_create") = {}

\* C12: a non-2xx response of the DNS update ends _create with an exception:
\* no settle delay, no connection attempt and no sentinel command follow, and
\* _create never returns the node.
C12_DnsRejectionIsFatal ==
    \A k \in 1..Len(calls) :
        (calls[k].op = "nsupdate" /\ ~calls[k].ok) =>
            /\ create_res = "raised"
            /\ \A j \in (k + 1)..Len(calls) : calls[j].in # "_create"
            /\ \A j \in 1..Len(calls) : calls[j].op \notin {"sleep", "connect", "run"}

\* C12 witness: the DNS update was rejected after the node and a volume were
\* created, and _create has raised
C12_Witness ==
    /\ create_res = "raised"
    /\ exc = "raise_for_status"
    /\ vols_ret = "True"
    /\ count = 1
    /\ Call("nsupdate", SessionNodeId, FALSE, "_create") \in Range(calls)

(* -------------------- claims on size and image ------------------------ *)

\* _create has got as far as reading its properties
Started == pc # "idle" \/ create_res # "none"

\* the size property raised in _create: the image property was never read
SizeFailed == create_res = "raised" /\ exc = "IndexError" /\ ~_images.set

\* the image property raised in _create
ImageFailed == create_res = "raised" /\ exc = "IndexError" /\ _images.set

\* the positions of the catalog entries that satisfy the three minimums
Satisfying ==
    {k \in 1..Len(driver_sizes) :
        /\ driver_sizes[k].ram >= machine.ram
        /\ driver_sizes[k].disk >= machine.disk
        /\ driver_sizes[k].vcpus >= machine.cpus}

KeyOf(sz) == <<sz.ram, sz.disk, sz.vcpus>>

\* a comes before b in the lexicographic order of triples
TripleLess(a, b) ==
    \E j \in 1..3 : a[j] < b[j] /\ \A h \in 1..(j - 1) : a[h] = b[h]

\* C13: with at least one catalog entry satisfying the three minimums, the size
\* property does not fail, and the size passed to create_node is a catalog entry
\* that satisfies them and whose key (ram, disk, vcpus) is the lexicographic
\* minimum of the satisfying entries.
C13_SmallestSatisfyingSize ==
    (Started /\ Satisfying # {}) =>
        /\ ~SizeFailed
        /\ create_args # NoArgs =>
            /\ \E k \in Satisfying : driver_sizes[k] = create_args.size
            /\ \A k \in Satisfying :
                    ~TripleLess(KeyOf(driver_sizes[k]), KeyOf(create_args.size))

\* C13 witness: ram 8000, disk 20, cpus 1 against 4000/10/1, 8000/20/2 and
\* 16000/40/4 has selected 8000/20/2
C13_Witness ==
    /\ pc = "create_node"
    /\ machine = [ram |-> 8000, disk |-> 20, cpus |-> 1]
    /\ driver_sizes = <<Size(4000, 10, 1), Size(8000, 20, 2), Size(16000, 40, 4)>>
    /\ create_args.size = Size(8000, 20, 2)

\* C14: with no catalog entry satisfying the three minimums (an empty catalog
\* included) the size property raises (IndexError), no size is selected and
\* _create ends before any create_node call.
C14_NoSizeIsAnError ==
    (Started /\ Satisfying = {}) =>
        /\ SizeFailed
        /\ pc = "idle"
        /\ create_args = NoArgs
        /\ \A k \in 1..Len(calls) : calls[k].op # "create_node"

\* C14 witness: _create has raised on an empty size catalog
C14_Witness ==
    /\ driver_sizes = <<>>
    /\ _sizes = Memo(<<>>)
    /\ create_res = "raised"
    /\ exc = "IndexError"

\* the positions of the images whose lower-cased name holds the text
Holding(text) ==
    {k \in 1..Len(driver_images) :
        \E p \in 0..(Len(driver_images[k].name) - Len(text)) :
            \A j \in 1..Len(text) : lower(driver_images[k].name)[p + j] = text[j]}

Spaced == os_type \o <<" ">> \o os_version
Hyphenated == os_type \o <<"-">> \o os_version

First(S) == CHOOSE k \in S : \A j \in S : k <= j

\* C15: the image passed to create_node is the first image in catalog order
\* matching "{os_type} {os_version}" if any image matches it, and else the first
\* one matching "{os_type}-{os_version}" (a pattern matches an image when it is
\* part of the lower-cased image name).
C15_SpacedPatternFirst ==
    (pc # "idle" \/ Where("create_node", "_create") # {}) =>
        /\ Holding(Spaced) # {} =>
                create_args.image = driver_images[First(Holding(Spaced))]
        /\ (Holding(Spaced) = {} /\ Holding(Hyphenated) # {}) =>
                create_args.image = driver_images[First(Holding(Hyphenated))]
        /\ Holding(Spaced) \cup Holding(Hyphenated) # {}

\* C15 witness: ubuntu 16.04 has selected the second of two images named
\* "ubuntu-16.04-server" behind an image that matches neither pattern
C15_Witness ==
    /\ pc = "create_node"
    /\ os_type = Ubuntu
    /\ Len(driver_images) = 3
    /\ Holding(Spaced) = {}
    /\ Holding(Hyphenated) = {2, 3}
    /\ create_args.image.id = 2

\* C16: an image matches a pattern exactly when the case-folded pattern is part
\* of the case-folded image name, so whenever some image matches that way the
\* first one in catalog order (of the spaced pattern, else of the hyphenated
\* one) is the image selected, whatever the case of os_type.
C16_CaseInsensitiveMatch ==
    (Started /\ ~SizeFailed) =>
        /\ Holding(lower(Spaced)) # {} =>
                create_args.image = driver_images[First(Holding(lower(Spaced)))]
        /\ (Holding(lower(Spaced)) = {} /\ Holding(lower(Hyphenated)) # {}) =>
                create_args.image = driver_images[First(Holding(lower(Hyphenated)))]

\* C17: when neither pattern is part of the lower-cased name of any image (an
\* empty catalog included) the image property raises (IndexError), no image is
\* selected and _create ends before any create_node call.
C17_NoImageIsAnError ==
    (Started /\ ~SizeFailed /\ Holding(Spaced) = {} /\ Holding(Hyphenated) = {}) =>
        /\ ImageFailed
        /\ pc = "idle"
        /\ create_args = NoArgs
        /\ \A k \in 1..Len(calls) : calls[k].op # "create_node"

\* C17 witness: _create has raised for centos 16.04 on a catalog of two ubuntu
\* images
C17_Witness ==
    /\ os_type = Centos
    /\ Len(driver_images) = 2
    /\ \A k \in 1..2 : startswith(lower(driver_images[k].name), Ubuntu)
    /\ create_res = "raised"
    /\ exc = "IndexError"
    /\ _images = Memo(driver_images)

(* ------------------ claims on inventory and configuration ------------- *)

\* how many calls o the listing history h holds
ListingCalls(h, o) == Cardinality({k \in 1..Len(h) : h[k].op = o})

\* One step, seen from the accessor a whose attribute goes from cache to
\* cache2 and whose driver call o lists listed (has: the driver has the call):
\* a memoized list stays as it is; the list memoized first is what the driver
\* lists then, or empty without the call; once a was read, one call o was made
\* and the read returned the memoized list.
Memoized(a, o, cache, cache2, has, listed) ==
    /\ cache.set => cache2 = cache
    /\ (~cache.set /\ cache2.set) => cache2.val = IF has THEN listed ELSE <<>>
    /\ IF a \in Range(returns')
       THEN /\ cache2.set
            /\ ret'[a] = cache2.val
            /\ ListingCalls(listings', o) = 1
       ELSE ListingCalls(listings', o) = 0

\* C18: for each of images, sizes, networks and security_groups, any number of
\* reads makes exactly one listing call and every read returns the list
\* memoized by it, also when the account has changed since; a driver without
\* the network or security-group listing gives an empty list, memoized too.
C18_InventoryIsMemoized ==
    [][/\ Memoized("images", "list_images", _images, _images', TRUE, driver_images)
       /\ Memoized("sizes", "list_sizes", _sizes, _sizes', TRUE, driver_sizes)
       /\ Memoized("networks", "ex_list_networks", _networks, _networks',
                   "ex_list_networks" \in driver_ex, driver_networks)
       /\ Memoized("security_groups", "ex_list_security_groups",
                   _security_groups, _security_groups',
                   "ex_list_security_groups" \in driver_ex, driver_security_groups)
    ]_vars

\* C18 witness: images was read twice, before and after the account changed,
\* and networks twice on a driver without ex_list_networks
C18_Witness ==
    /\ returns = <<"images", "networks", "images", "networks">>
    /\ _images.set
    /\ _images.val # driver_images
    /\ ret.images = _images.val
    /\ "ex_list_networks" \notin driver_ex
    /\ _networks = Memo(<<>>)
    /\ Len(listings) = 2

\* the value of the topic in the first of the sources explicit conf, its
\* section 'openstack', legacy section, defaults where it is not null
FirstNonNull(topic) ==
    IF ~full_conf[topic].null THEN full_conf[topic]
    ELSE IF ~full_conf.openstack[topic].null THEN full_conf.openstack[topic]
    ELSE IF ~legacy_conf[topic].null THEN legacy_conf[topic]
    ELSE defaults[topic]

\* C19: _read_conf sets each of the topics machine and volumes, independently,
\* to the whole value the topic has in the first source where it is non-null
\* (explicit conf, its section 'openstack', legacy section, defaults), with no
\* key of a later source added, and leaves the sources as they were.
C19_FirstSourceWinsWhole ==
    [][pc = "new" =>
        /\ pc' = "idle"
        /\ \A topic \in {"machine", "volumes"} : conf'[topic] = FirstNonNull(topic)
        /\ UNCHANGED <<full_conf, legacy_conf>>
    ]_vars

\* C19 witness: machine came from the explicit conf with its single key, though
\* the legacy section has a machine with all three keys, and volumes came from
\* the section 'openstack'
C19_Witness ==
    /\ pc = "idle"
    /\ conf.machine.d = {<<"ram", 16000>>}
    /\ full_conf.machine = conf.machine
    /\ Cardinality(legacy_conf.machine.d) = 3
    /\ full_conf.volumes.null
    /\ ~full_conf.openstack.volumes.null
    /\ conf.volumes = full_conf.openstack.volumes
    /\ ~legacy_conf.volumes.null
    /\ legacy_conf.volumes # conf.volumes

(* ------------------------ claims on volume names ---------------------- *)

\* the volumes this session has created, in the order of creation
Created == SelectSeq(volumes, LAMBDA v : v.by = 1)

\* the number of decimal digits of n
Digits(n) == IF n < 10 THEN 1 ELSE IF n < 100 THEN 2 ELSE 3

DigitValue(c) == CHOOSE d \in 0..9 : Digit[d + 1] = c

RECURSIVE Value(_)
\* the number a string of digits stands for
Value(s) ==
    IF s = <<>> THEN 0
    ELSE 10 * Value(SubSeq(s, 1, Len(s) - 1)) + DigitValue(s[Len(s)])

\* the place of a character in the character set, for those a name can hold
Ord(c) ==
    IF c \in Range(Digit) THEN 48 + DigitValue(c)
    ELSE CASE c = "_" -> 95 [] c = "a" -> 97 [] c = "b" -> 98
           [] c = "f" -> 102 [] c = "o" -> 111 [] c = "r" -> 114

\* a < b in the lexical order of strings
LexLess(a, b) ==
    \E k \in 1..(Len(b)) :
        /\ \A j \in 1..(k - 1) : j <= Len(a) /\ a[j] = b[j]
        /\ \/ Len(a) = k - 1
           \/ Len(a) >= k /\ Ord(a[k]) < Ord(b[k])

\* the text of a volume name after "{node_name}_"
Suffix(nm) == SubSeq(nm, Len(name) + 2, Len(nm))

\* C20: the k-th volume _create_volumes creates (k = 1..count) is named
\* "{node_name}_" followed by k-1 in decimal digits, zero-padded to the number
\* of digits of count-1; the names are pairwise distinct and their lexical
\* order is their order of creation.
C20_VolumeNames ==
    /\ Len(Created) <= count
    /\ \A k \in 1..Len(Created) :
        /\ startswith(Created[k].name, name \o <<"_">>)
        /\ Len(Suffix(Created[k].name)) = Digits(count - 1)
        /\ \A j \in 1..Len(Suffix(Created[k].name)) :
                Suffix(Created[k].name)[j] \in Range(Digit)
        /\ Value(Suffix(Created[k].name)) = k - 1
        /\ \A j \in 1..(k - 1) :
            /\ Created[j].name # Created[k].name
            /\ LexLess(Created[j].name, Created[k].name)

\* C20 witness: twelve volumes were created, foo_00 to foo_11
C20_Witness ==
    /\ count = 12
    /\ Len(Created) = 12
    /\ Created[1].name = <<"f", "o", "o", "_", "0", "0">>
    /\ Created[10].name = <<"f", "o", "o", "_", "0", "9">>
    /\ Created[12].name = <<"f", "o", "o", "_", "1", "1">>
    /\ pc = "_update_dns"

(* ---------------------- claims on the key file ------------------------ *)

\* _create has put its create arguments together
ArgsMade == pc # "idle" \/ Where("create_node", "_create") # {}

\* the text from the first to the last character that is no whitespace
Trimmed(c) ==
    LET inner == {k \in 1..Len(c) : c[k] \notin {" ", "\t", "\n", "\r"}}
    IN  IF inner = {} THEN <<>>
        ELSE SubSeq(c, CHOOSE a \in inner : \A k \in inner : a <= k,
                       CHOOSE b \in inner : \A k \in inner : k <= b)

\* C21 as claimed: without the key file it is not opened and the payload has
\* no authorized-keys entry; with the key file it is read and its content is
\* the single authorized key of the payload.
C21_KeyFileContentIsTheKey ==
    ArgsMade =>
        IF key_file.exists
        THEN /\ opened = 1
             /\ create_args.ex_userdata.keys_entry
             /\ create_args.ex_userdata.ssh_authorized_keys = <<key_file.content>>
        ELSE /\ opened = 0
             /\ ~create_args.ex_userdata.keys_entry

\* C21 as amended: without the key file it is not opened and the payload has
\* no authorized-keys entry; with the key file it is read once, and its content
\* without the whitespace at its ends is the single authorized key of the
\* payload, unless nothing is left of it: then the payload has no entry either.
C21_StrippedContentIsTheKey ==
    ArgsMade =>
        IF key_file.exists
        THEN /\ opened = 1
             /\ IF Trimmed(key_file.content) = <<>>
                THEN ~create_args.ex_userdata.keys_entry
                ELSE /\ create_args.ex_userdata.keys_entry
                     /\ create_args.ex_userdata.ssh_authorized_keys
                            = <<Trimmed(key_file.content)>>
        ELSE /\ opened = 0
             /\ ~create_args.ex_userdata.keys_entry

\* C21 witness: the arguments were made from a key file holding a key between
\* a blank and a tab and newline
C21_Witness ==
    /\ pc = "create_node"
    /\ key_file.exists
    /\ Len(key_file.content) = Len(PubKey) + 3
    /\ opened = 1
    /\ create_args.ex_userdata.keys_entry
    /\ create_args.ex_userdata.ssh_authorized_keys = <<PubKey>>

(* ------------------------------ C22 ----------------------------------- *)

\* the step of _create a call belongs to: create_node, wait_until_running,
\* _create_volumes (with its rollback), _update_dns, time.sleep,
\* _wait_for_ready's connect loop, its remote command
StepOf(o) ==
    CASE o = "create_node" -> 1
      [] o = "wait_until_running" -> 2
      [] o \in {"create_volume", "attach_volume", "list_volumes",
                "detach_volume", "destroy_volume"} -> 3
      [] o = "nsupdate" -> 4
      [] o = "sleep" -> 5
      [] o = "connect" -> 6
      [] o = "run" -> 7
      [] OTHER -> 0

\* the calls _create made, in order
CreateCalls == SelectSeq(calls, LAMBDA c : c.in = "_create")

\* C22: the calls of one _create come in the order create_node,
\* wait_until_running, the volume calls, the DNS request, the settle delay, the
\* connect loop, the remote command: a call is never followed by a call of an
\* earlier step, every step but the volumes' is entered once, after each
\* earlier one has returned, with count > 0 the DNS request comes after a
\* create_volume call, and the connect loop is entered straight after the
\* settle delay.
C22_StepsInOrder ==
    LET s == CreateCalls
    IN  /\ \A k \in 1..Len(s) :
            LET r == StepOf(s[k].op)
            IN  /\ r > 0
                /\ k > 1 => StepOf(s[k - 1].op) <= r
                /\ r # 3 => \A j \in 1..(k - 1) : StepOf(s[j].op) # r
                /\ \A q \in 1..(r - 1) :
                        q # 3 => \E j \in 1..(k - 1) :
                                    StepOf(s[j].op) = q /\ s[j].ok
                /\ r > 3 /\ count > 0 =>
                        \E j \in 1..(k - 1) : s[j].op = "create_volume"
        /\ pc = "connect" => s # <<>> /\ s[Len(s)].op = "sleep"

\* a _create with two volumes went through every step and returned the node
C22_Witness ==
    /\ create_res = "returned"
    /\ count = 2
    /\ [k \in 1..Len(CreateCalls) |-> CreateCalls[k].op] =
            <<"create_node", "wait_until_running", "create_volume",
              "attach_volume", "create_volume", "attach_volume", "nsupdate",
              "sleep", "connect", "run">>

(* ------------------------------ C23 ----------------------------------- *)

\* the create_volume and attach_volume calls of _create_volumes, in order
VolumeCalls ==
    SelectSeq(CreateCalls, LAMBDA c : c.op \in {"create_volume", "attach_volume"})

\* the volumes this session created that are attached to no node
Unattached ==
    {k \in 1..Len(volumes) : volumes[k].by = 1 /\ volumes[k].att = 0}

\* C23: the calls of _create_volumes alternate create_volume, attach_volume
\* over the volumes 0, 1, .. in that order, each call made after the one
\* before returned, for at most count volumes; while the loop runs at most one
\* volume of the session is created and not attached (none before a
\* create_volume); with count 0 _create makes no volume call at all and
\* _create_volumes returns True.
C23_OneVolumeAtATime ==
    LET v == VolumeCalls
    IN  /\ Len(v) <= 2 * count
        /\ \A k \in 1..Len(v) :
                /\ v[k].op = IF k % 2 = 1 THEN "create_volume" ELSE "attach_volume"
                /\ v[k].arg = VolumeId((k + 1) \div 2)
                /\ k < Len(v) => v[k].ok
        /\ \A k \in 1..Len(volumes) :
                volumes[k].by = 1 =>
                    volumes[k].name =
                        vol_names(name, count)[volumes[k].id - Len(PreVolumeNames)]
        /\ pc = "create_volume" => Unattached = {}
        /\ pc = "attach_volume" =>
                /\ Cardinality(Unattached) = 1
                /\ \A k \in Unattached : volumes[k].id = VolumeId(i)
        /\ count = 0 =>
                /\ \A k \in 1..Len(CreateCalls) : StepOf(CreateCalls[k].op) # 3
                /\ (\E k \in Where("wait_until_running", "_create") : calls[k].ok)
                        => vols_ret = "True"

\* the second volume is created and not attached yet, the first is attached
C23_Witness ==
    /\ pc = "attach_volume"
    /\ count = 2
    /\ i = 2
    /\ Len(VolumeCalls) = 3
    /\ \E k \in 1..Len(volumes) :
            volumes[k].id = VolumeId(1) /\ volumes[k].att = _node

(* ------------------------------ C24 ----------------------------------- *)

\* the last call _create made
LastCall == CreateCalls[Len(CreateCalls)]

\* C24: the remote sentinel command is run only straight after a connect
\* loop that ended with a connection; a _create that ended with MaxWhileTries
\* ended in the connect loop and never ran the command; a _create that ended
\* with the remote command's own error ran it after a connection; so the two
\* errors reaching the caller are of different kinds.
C24_SentinelAfterConnection ==
    LET s == CreateCalls
    IN  /\ \A k \in 1..Len(s) :
                s[k].op = "run" =>
                    k > 1 /\ s[k - 1].op = "connect" /\ s[k - 1].ok
        /\ pc = "run" => s # <<>> /\ LastCall.op = "connect" /\ LastCall.ok
        /\ create_res = "raised" /\ exc = "MaxWhileTries" =>
                /\ LastCall.op = "connect" /\ ~LastCall.ok
                /\ \A k \in 1..Len(s) : s[k].op # "run"
        /\ create_res = "raised" /\ s # <<>> /\ LastCall.op = "run" =>
                /\ ~LastCall.ok
                /\ exc = "run"
                /\ exc # "MaxWhileTries"

\* the connect loop used up its tries: _create ended with MaxWhileTries
C24_Witness ==
    /\ create_res = "raised"
    /\ exc = "MaxWhileTries"
    /\ LastCall.op = "connect"

(* ------------------------------ C25 ----------------------------------- *)

\* the volumes a teardown of this session (the rollback in _create or the one
\* in _destroy) passed to detach_volume or destroy_volume
TornDown ==
    {calls[k].arg : k \in {j \in 1..Len(calls) :
        calls[j].op \in {"detach_volume", "destroy_volume"}}}

\* C25: no teardown of this session, in the rollback of _create_volumes or in
\* _destroy, passes a volume the other session created to detach_volume or
\* destroy_volume, whatever the other session's node name (other than this
\* session's), "foo_1" next to "foo" included.
C25_OtherSessionsVolumesAreLeftAlone == OtherVolumeId \notin TornDown

(* ------------------------------ C26 ----------------------------------- *)

\* how many calls o this _create has made
Made(o) == Cardinality(Where(o, "_create"))

\* the calls a run of _create makes are bounded
BoundedCalls ==
    /\ Made("create_node") <= 1
    /\ Made("wait_until_running") <= 1
    /\ Made("create_volume") <= count
    /\ Made("attach_volume") <= count
    /\ Made("attach_volume") <= Made("create_volume")
    /\ Made("nsupdate") <= 1
    /\ Made("sleep") <= 1
    /\ Made("connect") <= 1
    /\ tries < Tries
    /\ Made("run") <= 1

\* C26: when every call returns or raises, a _create that was called comes to
\* an end, returning the node or raising, and until then it has made at most
\* one create_node call, count create_volume and count attach_volume calls,
\* one DNS request, one connect loop of at most Tries attempts and one remote
\* sentinel command.
C26_CreateTerminates ==
    /\ []BoundedCalls
    /\ (op = "_create") ~> (op = "none" /\ create_res \in {"returned", "raised"})

\* a _create that went through every call it can make, two volumes included,
\* and ended with the sentinel command's error
C26_Witness ==
    /\ create_res = "raised"
    /\ exc = "run"
    /\ count = 2
    /\ Made("create_volume") = 2
    /\ Made("attach_volume") = 2
    /\ Made("nsupdate") = 1

====
